---- MODULE Spec2Model ----
(***************************************************************************)
(* The bootstrap pipeline of water.dicom.bootstrap_data: the readiness     *)
(* wait on the Orthanc client, the TCIA series query, the per-series       *)
(* download loop, the upload loop and the summary, together with the two   *)
(* clients' retrying calls (water.dicom.orthanc_client, tcia_client).      *)
(*                                                                         *)
(* The remote services are the environment: every request's outcome is     *)
(* drawn with \E from the outcomes httpx can produce.  A 2xx reply is      *)
(* taken to carry the JSON body the endpoint documents.                    *)
(***************************************************************************)
EXTENDS Integers, Sequences, FiniteSets, TLC

\* ------------------------------------------------------------------ bounds
\* Longest discovery response (series_list) the archive returns.
MaxSeriesLen == 2
\* Largest max_series argument of run (the smallest is -1).
MaxSeriesArg == 2
\* Longest member list of a downloaded ZIP archive.
MaxMembers == 2
\* Most files the archive yields over one run (all series together).
MaxCollected == 4
\* Largest max_retries argument _wait_for_orthanc is applied to on its own.
MaxRetriesArg == 5

\* ------------------------------------------------------- program constants
\* _wait_for_orthanc(client, max_retries=12, delay=5.0)
DefaultMaxRetries == 12
DefaultDelay == 5
\* stop_after_attempt(3) on TCIAClient.download_series
DownloadAttempts == 3
\* stop_after_attempt(3) on OrthancClient.upload_dicom
UploadAttempts == 3

\* wait_exponential(multiplier=2, min=4, max=30) of download_series and
\* wait_exponential(multiplier=1, min=2, max=10) of upload_dicom, in seconds.
DownloadWaitMultiplier == 2
DownloadWaitMin == 4
DownloadWaitMax == 30
UploadWaitMultiplier == 1
UploadWaitMin == 2
UploadWaitMax == 10

\* ------------------------------------------------------------- exceptions
\* httpx.ConnectError and httpx.TimeoutException are transport errors;
\* httpx.HTTPStatusError is what raise_for_status raises.  All three are
\* subclasses of httpx.HTTPError.  OSError is a failed file operation.
TransportErrors == {"ConnectError", "TimeoutException"}
HTTPErrors == TransportErrors \cup {"HTTPStatusError"}
HTTPOutcomes == {"ok"} \cup HTTPErrors

\* dict.get(key, default)
Get(d, key, default) == IF key \in DOMAIN d THEN d[key] ELSE default

EmptyDict == [k \in {} |-> ""]

VARIABLES
    pc,             \* where run (or the function applied on its own) stands
    outcome,        \* how the process ended: "running" until it has
    max_retries,    \* _wait_for_orthanc: argument
    delay,          \* _wait_for_orthanc: argument
    attempt,        \* _wait_for_orthanc: loop variable (0: no frame)
    aliveLog,       \* _wait_for_orthanc: what each is_alive call returned
    sleepLog,       \* _wait_for_orthanc: the argument of each time.sleep
    lastProbe,      \* outcome of the latest GET /system or GET /statistics
                    \* of the current function ("none" before it)
    orthanc,        \* OrthancClient of run: "none", "open", "closed"
    tcia,           \* TCIAClient of run: "none", "open", "closed"
    max_series,     \* run: argument
    discovery,      \* run: how tcia.get_series ended ("none" before it)
    series_list,    \* run: what tcia.get_series returned
    selected,       \* run: series_list[:max_series]
    idx,            \* run: position of the series loop (1-based)
    dlLog,          \* run: per processed series, what became of it
    dlCalls,        \* the identifiers download_series was called with, in order
    all_dicom_files,\* run: the collected paths
    stats,          \* _push_files_to_orthanc: the counters
    upIdx,          \* _push_files_to_orthanc: position of the loop (1-based)
    uploadCalls,    \* the paths upload_dicom_file was called with, in order
    lastUpload,     \* what the latest upload_dicom_file call did
    statQueries,    \* number of GET /statistics requests
    pollConfig,     \* the poll retry count and delay the run is configured with
    callArgs,       \* a client call applied on its own: its arguments
    callResult      \* a client call applied on its own: how it ended

waitVars == <<max_retries, delay, attempt, aliveLog, sleepLog, lastProbe>>
clientVars == <<orthanc, tcia>>
seriesVars ==
    <<max_series, discovery, series_list, selected, idx, dlLog, dlCalls, all_dicom_files>>
pushVars == <<stats, upIdx, uploadCalls, lastUpload>>
callVars == <<pollConfig, callArgs, callResult>>
runVars == <<outcome, waitVars, clientVars, seriesVars, pushVars, statQueries>>
vars == <<pc, outcome, waitVars, clientVars, seriesVars, pushVars, statQueries, callVars>>

Min(a, b) == IF a < b THEN a ELSE b
Max(a, b) == IF a > b THEN a ELSE b

RECURSIVE Pow2(_)
Pow2(e) == IF e <= 0 THEN 1 ELSE 2 * Pow2(e - 1)

\* ---------------------------------------------------------- OrthancClient
\* OrthancClient.get_system_info: GET /system, raise_for_status, json.
\* Returns the exception raised, or "ok".
get_system_info(http) == http

\* OrthancClient.is_alive: True when get_system_info returns, False when it
\* raises httpx.HTTPError (ConnectError is one); anything else propagates.
is_aliveAnyResponse(http) == get_system_info(http) \notin TransportErrors
is_alive(http) == get_system_info(http) \notin HTTPErrors

\* tenacity's retry(retry=retry_if_exception_type((ConnectError,
\* TimeoutException)), stop=stop_after_attempt(limit), reraise=True): the
\* index of the attempt the call ends with.  errs[n] is what attempt n
\* raises ("" when it returns).  A further attempt follows only an attempt
\* that raised a transport error, and only below the limit.
RECURSIVE RetryingAnyError(_, _, _)
RetryingAnyError(errs, n, limit) ==
    IF errs[n] # "" /\ n < limit
    THEN RetryingAnyError(errs, n + 1, limit)
    ELSE n

RECURSIVE Retrying(_, _, _)
Retrying(errs, n, limit) ==
    IF errs[n] \in TransportErrors /\ n < limit
    THEN Retrying(errs, n + 1, limit)
    ELSE n

\* tenacity's wait_exponential(multiplier, min, max) with its exponent base
\* of 2: the seconds slept after failed attempt attempt_number,
\* max(max(0, min), min(multiplier * 2 ** (attempt_number - 1), max)).
WaitExponentialFromMin(multiplier, lo, hi, attempt_number) ==
    Min(hi, lo * Pow2(attempt_number - 1))
WaitExponential(multiplier, lo, hi, attempt_number) ==
    Max(Max(0, lo), Min(multiplier * Pow2(attempt_number - 1), hi))

\* The sleeps of a call that ends with attempt last: one after each attempt
\* before it.
Waits(last, multiplier, lo, hi) ==
    [n \in 1..(last - 1) |-> WaitExponential(multiplier, lo, hi, n)]

\* A call's script: the environment's answer to each attempt
\* the call can make.  Answers after the attempt that ends the call are
\* never requested; they are fixed to one value.
Script(pre, fin, filler, limit) ==
    [n \in 1..limit |->
        IF n <= Len(pre) THEN pre[n] ELSE IF n = Len(pre) + 1 THEN fin ELSE filler]

\* The attempts that precede a call's last one: each raised a transport error.
TransportPrefixes(limit, failed) ==
    UNION {[1..j -> failed] : j \in 0..(limit - 1)}

\* What the Orthanc upload endpoint answers: {ID, Status}, Status possibly
\* empty or absent.
UploadResults ==
    {[ID |-> "i", Status |-> "Success"], [ID |-> "i", Status |-> "AlreadyStored"],
     [ID |-> "i", Status |-> ""], [ID |-> "i"]}

UpAttempt(http, body) == [http |-> http, body |-> body]
UpFail(e) == UpAttempt(e, EmptyDict)
UpAttempts ==
    {UpFail(e) : e \in HTTPErrors} \cup {UpAttempt("ok", b) : b \in UploadResults}
UploadScripts ==
    {Script(pre, fin, UpFail("ConnectError"), UploadAttempts) :
        pre \in TransportPrefixes(UploadAttempts, {UpFail(e) : e \in TransportErrors}),
        fin \in UpAttempts}

\* OrthancClient.upload_dicom under its retry decorator: POST /instances,
\* raise_for_status, json.
upload_dicom(script) ==
    LET errs == [n \in 1..UploadAttempts |->
                    IF script[n].http = "ok" THEN "" ELSE script[n].http]
        last == Retrying(errs, 1, UploadAttempts)
    IN  [raised |-> errs[last], result |-> script[last].body, attempts |-> last,
         waits |-> Waits(last, UploadWaitMultiplier, UploadWaitMin, UploadWaitMax)]

\* upload_dicom_file calling upload_dicom a second time when its attempts
\* are exhausted.
upload_dicom_fileAgain(read, script) ==
    IF read # "ok"
    THEN [raised |-> read, result |-> EmptyDict, attempts |-> 0, waits |-> <<>>]
    ELSE LET r == upload_dicom(script)
         IN  IF r.raised \in TransportErrors
             THEN [r EXCEPT !.attempts = 2 * r.attempts]
             ELSE r

\* OrthancClient.upload_dicom_file: path.read_bytes() (read is "ok" or the
\* OSError it raises), then upload_dicom.
upload_dicom_file(read, script) ==
    IF read # "ok"
    THEN [raised |-> read, result |-> EmptyDict, attempts |-> 0, waits |-> <<>>]
    ELSE upload_dicom(script)

\* Every way one upload_dicom_file call can end, over all the environment
\* can answer.
UploadOutcomes ==
    {upload_dicom_file(read, script) : read \in {"ok"}, script \in UploadScripts}
        \cup {upload_dicom_file("OSError", script) : script \in UploadScripts}

\* ------------------------------------------------------------- TCIAClient
\* What GET /getSeries answers: a list of series descriptors, each with or
\* without a SeriesInstanceUID, which may be empty.
SeriesUIDs == {"A", "B"}
SeriesMetas ==
    {EmptyDict, [SeriesInstanceUID |-> ""]}
        \cup {[SeriesInstanceUID |-> u] : u \in SeriesUIDs}
SeriesLists == UNION {[1..n -> SeriesMetas] : n \in 0..MaxSeriesLen}

\* TCIAClient.get_series: GET /getSeries, raise_for_status, json.
get_series(http, body) ==
    IF http = "ok" THEN [raised |-> "", list |-> body]
    ELSE [raised |-> http, list |-> <<>>]

\* A path under output_dir/<uid>/.  name 0 is <uid>.dcm, the raw fallback;
\* name k > 0 is the name of the archive's k-th file member.
File(uid, k) == [series |-> uid, name |-> k]

\* The payload of GET /getImage: a ZIP archive with its member list, or
\* bytes that are no ZIP archive at all.  A member is a directory entry, a
\* file, a "corrupt" file on which zf.read raises zipfile.BadZipFile (bad
\* CRC-32, bad local header), or a "damaged" file on which zf.read raises
\* another exception (zlib.error on a broken data stream,
\* NotImplementedError on an unknown compression method).
MemberKinds == {"file", "dir", "corrupt", "damaged"}
Payloads ==
    {[zip |-> FALSE, members |-> <<>>]}
        \cup {[zip |-> TRUE, members |-> m] :
                m \in UNION {[1..n -> MemberKinds] : n \in 0..MaxMembers}}
NoPayload == [zip |-> FALSE, members |-> <<>>]

\* The loop over zf.namelist() from member j on, with the except clause:
\* directories are skipped, a file is written and appended,
\* zipfile.BadZipFile ends the loop and appends the raw fallback file, and
\* any other exception of zf.read leaves download_series (the except clause
\* names BadZipFile only).  raised is "" when the list is returned.
RECURSIVE ExtractFrom(_, _, _, _)
ExtractFrom(uid, members, j, extracted_files) ==
    IF j > Len(members) THEN [raised |-> "", files |-> extracted_files]
    ELSE IF members[j] = "dir"
         THEN ExtractFrom(uid, members, j + 1, extracted_files)
    ELSE IF members[j] = "file"
         THEN ExtractFrom(uid, members, j + 1,
                  Append(extracted_files, File(uid, Len(extracted_files) + 1)))
    ELSE IF members[j] = "corrupt"
         THEN [raised |-> "", files |-> Append(extracted_files, File(uid, 0))]
    ELSE [raised |-> "zlib.error", files |-> <<>>]

\* The try block of download_series: zipfile.ZipFile raises BadZipFile on
\* bytes that are no archive.
Extract(uid, payload) ==
    IF payload.zip
    THEN ExtractFrom(uid, payload.members, 1, <<>>)
    ELSE [raised |-> "", files |-> <<File(uid, 0)>>]

DlAttempt(http, payload, disk) == [http |-> http, payload |-> payload, disk |-> disk]
DlFail(e) == DlAttempt(e, NoPayload, "ok")
DlAttempts ==
    {DlFail(e) : e \in HTTPErrors}
        \cup {DlAttempt("ok", p, d) : p \in Payloads, d \in {"ok", "OSError"}}
DownloadScripts ==
    {Script(pre, fin, DlFail("ConnectError"), DownloadAttempts) :
        pre \in TransportPrefixes(DownloadAttempts, {DlFail(e) : e \in TransportErrors}),
        fin \in DlAttempts}

\* One execution of the body of download_series: the exception it raises
\* ("" when it returns).  disk is "OSError" when mkdir or write_bytes fails;
\* with the response and the disk in order, what reading the archive raises.
DownloadRaises(a) ==
    IF a.http # "ok" THEN a.http
    ELSE IF a.disk # "ok" THEN a.disk
    ELSE Extract("", a.payload).raised

\* TCIAClient.download_series under its retry decorator.
download_seriesRetryDisk(uid, script) ==
    LET errs == [n \in 1..DownloadAttempts |-> DownloadRaises(script[n])]
        last == Retrying([n \in 1..DownloadAttempts |->
                            IF errs[n] = "OSError" THEN "ConnectError" ELSE errs[n]],
                         1, DownloadAttempts)
    IN  [raised |-> errs[last],
         files |-> IF errs[last] = "" THEN Extract(uid, script[last].payload).files
                   ELSE <<>>,
         attempts |-> last,
         waits |-> Waits(last, DownloadWaitMultiplier, DownloadWaitMin, DownloadWaitMax)]

download_series(uid, script) ==
    LET errs == [n \in 1..DownloadAttempts |-> DownloadRaises(script[n])]
        last == Retrying(errs, 1, DownloadAttempts)
    IN  [raised |-> errs[last],
         files |-> IF errs[last] = "" THEN Extract(uid, script[last].payload).files
                   ELSE <<>>,
         attempts |-> last,
         waits |-> Waits(last, DownloadWaitMultiplier, DownloadWaitMin, DownloadWaitMax)]

\* Every way one download_series call for uid can end, over all the
\* environment can answer.
DownloadOutcomes ==
    [uid \in SeriesUIDs \cup {""} |->
        {download_series(uid, script) : script \in DownloadScripts}]

\* -------------------------------------------------------------------- run
\* No client call is being applied on its own.
NoCall == EmptyDict

\* The poll retry count and delay in force when nothing overrides them.
DefaultPollConfig == [retries |-> DefaultMaxRetries, delay |-> DefaultDelay]

NoStats == [uploaded |-> 0, already_stored |-> 0, failed |-> 0]
NoUpload == [raised |-> FALSE, result |-> EmptyDict]

\* ------------------------------------------------------ _wait_for_orthanc
\* for attempt in range(1, max_retries + 1): whether the body runs once more.
LoopRunsOffByOne(a, n) == a < n
LoopRuns(a, n) == a <= n

\* The loop body with a delay that doubles from one failed poll to the next.
WaitPollBackoff ==
    /\ pc = "wait"
    /\ LoopRuns(attempt, max_retries)
    /\ \E http \in HTTPOutcomes :
        /\ lastProbe' = http
        /\ aliveLog' = Append(aliveLog, is_alive(http))
        /\ IF is_alive(http)
           THEN /\ pc' = "alive"
                /\ UNCHANGED <<attempt, sleepLog>>
           ELSE /\ pc' = "wait"
                /\ sleepLog' = Append(sleepLog, delay * Pow2(attempt - 1))
                /\ attempt' = attempt + 1
    /\ UNCHANGED <<outcome, max_retries, delay, clientVars, seriesVars,
                   pushVars, statQueries>>
    /\ UNCHANGED callVars

\* One pass of the loop body whose is_alive poll returns False: the warning
\* is logged and time.sleep(delay) runs, also after the last poll.
\* A poll that returns True leaves the loop for the get_system_info call.
WaitPoll ==
    /\ pc = "wait"
    /\ LoopRuns(attempt, max_retries)
    /\ \E http \in HTTPOutcomes :
        /\ lastProbe' = http
        /\ aliveLog' = Append(aliveLog, is_alive(http))
        /\ IF is_alive(http)
           THEN /\ pc' = "alive"
                /\ UNCHANGED <<attempt, sleepLog>>
           ELSE /\ pc' = "wait"
                /\ sleepLog' = Append(sleepLog, delay)
                /\ attempt' = attempt + 1
    /\ UNCHANGED <<outcome, max_retries, delay, clientVars, seriesVars,
                   pushVars, statQueries>>
    /\ UNCHANGED callVars

\* After the poll that returned True: info = client.get_system_info().  The
\* call is outside any try block: what it raises leaves _wait_for_orthanc
\* and run as an uncaught exception.
WaitSystemInfo ==
    /\ pc = "alive"
    /\ \E http \in HTTPOutcomes :
        /\ lastProbe' = http
        /\ IF get_system_info(http) = "ok"
           THEN /\ pc' = "ready"
                /\ outcome' = outcome
           ELSE /\ pc' = "done"
                /\ outcome' = "crash"
    /\ UNCHANGED <<max_retries, delay, attempt, aliveLog, sleepLog,
                   clientVars, seriesVars, pushVars, statQueries>>
    /\ UNCHANGED callVars

\* The wait started over when the loop ran out.
WaitTimeoutRestarts ==
    /\ pc = "wait"
    /\ ~LoopRuns(attempt, max_retries)
    /\ attempt' = 1
    /\ aliveLog' = <<>>
    /\ sleepLog' = <<>>
    /\ UNCHANGED <<pc, outcome, max_retries, delay, lastProbe, clientVars,
                   seriesVars, pushVars, statQueries>>
    /\ UNCHANGED callVars

\* The loop ran out: logger.error and sys.exit(1).
WaitTimeout ==
    /\ pc = "wait"
    /\ ~LoopRuns(attempt, max_retries)
    /\ pc' = "done"
    /\ outcome' = "fatal_readiness"
    /\ UNCHANGED <<waitVars, clientVars, seriesVars, pushVars, statQueries>>
    /\ UNCHANGED callVars

\* series_list[:max_series]: the first max_series entries, and for a
\* negative max_series all but the last -max_series.
SliceOneMore(list, m) == SubSeq(list, 1, IF m < Len(list) THEN m + 1 ELSE Len(list))
Slice(list, m) ==
    IF m >= 0
    THEN SubSeq(list, 1, IF m < Len(list) THEN m ELSE Len(list))
    ELSE SubSeq(list, 1, Len(list) + m)

\* all_dicom_files.extend(files)
ExtendInFront(all, files) == files \o all
Extend(all, files) == all \o files

\* The except clause and the emptiness test after tcia.get_series: which
\* sys.exit(1) is taken, "running" when neither is.
DiscoveryVerdictNoEmptyTest(r) ==
    IF r.raised # "" THEN "fatal_discovery" ELSE "running"
DiscoveryVerdict(r) ==
    IF r.raised # "" THEN "fatal_discovery"
    ELSE IF r.list = <<>> THEN "fatal_empty"
    ELSE "running"

\* if not uid: an empty identifier (the default of the .get for an absent
\* key included) makes the loop skip the entry.
NotNever(uid) == FALSE
Not(uid) == uid = ""

\* What the series loop did with one entry: "skipped" it, or called
\* download_series(uid, ...), which "failed" or was "ok" and returned files.
Entry(kind, uid, files) == [kind |-> kind, uid |-> uid, files |-> files]

\* tcia = TCIAClient(); series_list = tcia.get_series(collection) with its
\* except clause and the emptiness test; then selected = series_list[:max_series].
\* _wait_for_orthanc has returned: nothing of its frame is kept.
QuerySeries ==
    /\ pc = "ready"
    /\ tcia' = "open"
    /\ attempt' = 0
    /\ aliveLog' = <<>>
    /\ sleepLog' = <<>>
    /\ lastProbe' = "none"
    /\ \E http \in HTTPOutcomes, body \in SeriesLists :
        LET r == get_series(http, body) IN
        /\ http # "ok" => body = <<>>
        /\ discovery' = IF r.raised # "" THEN "error"
                        ELSE IF r.list = <<>> THEN "empty" ELSE "list"
        /\ IF DiscoveryVerdict(r) # "running"
           THEN /\ pc' = "done"
                /\ outcome' = DiscoveryVerdict(r)
                /\ UNCHANGED <<series_list, selected, idx>>
           ELSE /\ pc' = "process"
                /\ outcome' = outcome
                /\ series_list' = r.list
                /\ selected' = Slice(r.list, max_series)
                /\ idx' = 1
    /\ UNCHANGED <<max_retries, delay, orthanc, max_series, dlLog, dlCalls,
                   all_dicom_files, pushVars, statQueries>>
    /\ UNCHANGED callVars

\* The loop body without its try/except: what download_series raises ends
\* the run.
ProcessSeriesUncaught ==
    /\ pc = "process"
    /\ idx <= Len(selected)
    /\ LET uid == Get(selected[idx], "SeriesInstanceUID", "") IN
        IF Not(uid)
        THEN /\ dlLog' = Append(dlLog, Entry("skipped", uid, <<>>))
             /\ UNCHANGED <<all_dicom_files, dlCalls, pc, outcome>>
        ELSE \E r \in DownloadOutcomes[uid] :
                /\ dlCalls' = Append(dlCalls, uid)
                /\ IF r.raised = ""
                   THEN /\ Len(all_dicom_files) + Len(r.files) <= MaxCollected
                        /\ all_dicom_files' = Extend(all_dicom_files, r.files)
                        /\ dlLog' = Append(dlLog, Entry("ok", uid, r.files))
                        /\ UNCHANGED <<pc, outcome>>
                   ELSE /\ dlLog' = Append(dlLog, Entry("failed", uid, <<>>))
                        /\ pc' = "done"
                        /\ outcome' = "crash"
                        /\ UNCHANGED all_dicom_files
    /\ idx' = idx + 1
    /\ UNCHANGED <<waitVars, clientVars, max_series, discovery,
                   series_list, selected, pushVars, statQueries>>
    /\ UNCHANGED callVars

\* The loop body with the files of a series appended in an order that the
\* archive's answer does not fix.
ProcessSeriesAnyOrder ==
    /\ pc = "process"
    /\ idx <= Len(selected)
    /\ LET uid == Get(selected[idx], "SeriesInstanceUID", "") IN
        IF Not(uid)
        THEN /\ dlLog' = Append(dlLog, Entry("skipped", uid, <<>>))
             /\ UNCHANGED <<all_dicom_files, dlCalls>>
        ELSE \E r \in DownloadOutcomes[uid] :
                /\ dlCalls' = Append(dlCalls, uid)
                /\ IF r.raised = ""
                   THEN /\ Len(all_dicom_files) + Len(r.files) <= MaxCollected
                        /\ \/ all_dicom_files' = Extend(all_dicom_files, r.files)
                           \/ all_dicom_files' = ExtendInFront(all_dicom_files, r.files)
                        /\ dlLog' = Append(dlLog, Entry("ok", uid, r.files))
                   ELSE /\ dlLog' = Append(dlLog, Entry("failed", uid, <<>>))
                        /\ UNCHANGED all_dicom_files
    /\ idx' = idx + 1
    /\ UNCHANGED <<pc, outcome, waitVars, clientVars, max_series, discovery,
                   series_list, selected, pushVars, statQueries>>
    /\ UNCHANGED callVars

\* One pass of the loop over selected: an entry without a SeriesInstanceUID
\* (absent or empty) is skipped; otherwise tcia.download_series is called,
\* its files are appended, and whatever it raises is logged and dropped.
ProcessSeries ==
    /\ pc = "process"
    /\ idx <= Len(selected)
    /\ LET uid == Get(selected[idx], "SeriesInstanceUID", "") IN
        IF Not(uid)
        THEN /\ dlLog' = Append(dlLog, Entry("skipped", uid, <<>>))
             /\ UNCHANGED <<all_dicom_files, dlCalls>>
        ELSE \E r \in DownloadOutcomes[uid] :
                /\ dlCalls' = Append(dlCalls, uid)
                /\ IF r.raised = ""
                   THEN /\ Len(all_dicom_files) + Len(r.files) <= MaxCollected
                        /\ all_dicom_files' = Extend(all_dicom_files, r.files)
                        /\ dlLog' = Append(dlLog, Entry("ok", uid, r.files))
                   ELSE /\ dlLog' = Append(dlLog, Entry("failed", uid, <<>>))
                        /\ UNCHANGED all_dicom_files
    /\ idx' = idx + 1
    /\ UNCHANGED <<pc, outcome, waitVars, clientVars, max_series, discovery,
                   series_list, selected, pushVars, statQueries>>
    /\ UNCHANGED callVars

\* The statements after the loop, entered from inside the loop.
FinishDownloadsEarly ==
    /\ pc = "process"
    /\ idx >= 1
    /\ tcia' = "closed"
    /\ IF all_dicom_files = <<>>
       THEN /\ pc' = "done"
            /\ outcome' = "fatal_nofiles"
            /\ UNCHANGED <<stats, upIdx>>
       ELSE /\ pc' = "upload"
            /\ outcome' = outcome
            /\ stats' = NoStats
            /\ upIdx' = 1
    /\ UNCHANGED <<waitVars, orthanc, seriesVars, uploadCalls, lastUpload,
                   statQueries>>
    /\ UNCHANGED callVars

\* The emptiness test placed after the call of _push_files_to_orthanc.
FinishDownloadsPushFirst ==
    /\ pc = "process"
    /\ idx > Len(selected)
    /\ tcia' = "closed"
    /\ stats' = NoStats
    /\ upIdx' = 1
    /\ IF all_dicom_files = <<>>
       THEN /\ pc' = "done"
            /\ outcome' = "fatal_nofiles"
       ELSE /\ pc' = "upload"
            /\ outcome' = outcome
    /\ UNCHANGED <<waitVars, orthanc, seriesVars, uploadCalls, lastUpload,
                   statQueries>>
    /\ UNCHANGED callVars

\* After the loop: tcia.close(), then sys.exit(1) when nothing was
\* collected, else _push_files_to_orthanc is entered with fresh counters.
FinishDownloads ==
    /\ pc = "process"
    /\ idx > Len(selected)
    /\ tcia' = "closed"
    /\ IF all_dicom_files = <<>>
       THEN /\ pc' = "done"
            /\ outcome' = "fatal_nofiles"
            /\ UNCHANGED <<stats, upIdx>>
       ELSE /\ pc' = "upload"
            /\ outcome' = outcome
            /\ stats' = NoStats
            /\ upIdx' = 1
    /\ UNCHANGED <<waitVars, orthanc, seriesVars, uploadCalls, lastUpload,
                   statQueries>>
    /\ UNCHANGED callVars

\* ------------------------------------------------- _push_files_to_orthanc
\* The counter one upload_dicom_file call increments: failed when it raised,
\* else already_stored or uploaded by result.get("Status", "").
ClassifySuccessOnly(r) ==
    IF r.raised # "" THEN "failed"
    ELSE IF Get(r.result, "Status", "") = "Success" THEN "uploaded"
    ELSE "already_stored"
Classify(r) ==
    IF r.raised # "" THEN "failed"
    ELSE IF Get(r.result, "Status", "") = "AlreadyStored" THEN "already_stored"
    ELSE "uploaded"

\* stats[field] += 1
IncrementAssigns(s, field) == [s EXCEPT ![field] = 1]
IncrementFallsThrough(s, field) ==
    IF field = "already_stored"
    THEN [s EXCEPT !.already_stored = @ + 1, !.uploaded = @ + 1]
    ELSE [s EXCEPT ![field] = @ + 1]
Increment(s, field) == [s EXCEPT ![field] = @ + 1]

\* The loop body without its try/except: what upload_dicom_file raises
\* leaves the function.
UploadFileUncaught ==
    /\ pc = "upload"
    /\ upIdx <= Len(all_dicom_files)
    /\ \E r \in UploadOutcomes :
        /\ lastUpload' = [raised |-> r.raised # "", result |-> r.result]
        /\ IF r.raised # ""
           THEN /\ pc' = "done"
                /\ outcome' = "crash"
                /\ stats' = stats
           ELSE /\ stats' = Increment(stats, Classify(r))
                /\ UNCHANGED <<pc, outcome>>
    /\ uploadCalls' = Append(uploadCalls, all_dicom_files[upIdx])
    /\ upIdx' = upIdx + 1
    /\ UNCHANGED <<waitVars, clientVars, seriesVars, statQueries>>
    /\ UNCHANGED callVars

\* One pass of the loop over dicom_files: upload_dicom_file is called, and
\* the counter its end selects is incremented.
UploadFile ==
    /\ pc = "upload"
    /\ upIdx <= Len(all_dicom_files)
    /\ \E r \in UploadOutcomes :
        /\ stats' = Increment(stats, Classify(r))
        /\ lastUpload' = [raised |-> r.raised # "", result |-> r.result]
    /\ uploadCalls' = Append(uploadCalls, all_dicom_files[upIdx])
    /\ upIdx' = upIdx + 1
    /\ UNCHANGED <<pc, outcome, waitVars, clientVars, seriesVars, statQueries>>
    /\ UNCHANGED callVars

\* return stats from inside the loop.
PushReturnEarly ==
    /\ pc = "upload"
    /\ pc' = "summary"
    /\ UNCHANGED <<outcome, waitVars, clientVars, seriesVars, pushVars, statQueries>>
    /\ UNCHANGED callVars

\* The loop is over: return stats.
PushReturn ==
    /\ pc = "upload"
    /\ upIdx > Len(all_dicom_files)
    /\ pc' = "summary"
    /\ UNCHANGED <<outcome, waitVars, clientVars, seriesVars, pushVars, statQueries>>
    /\ UNCHANGED callVars

\* _print_summary (orthanc.get_statistics: GET /statistics, raise_for_status,
\* json; an exception is not caught anywhere), then orthanc.close().
PrintSummary ==
    /\ pc = "summary"
    /\ statQueries' = statQueries + 1
    /\ pc' = "done"
    /\ \E http \in HTTPOutcomes :
        /\ lastProbe' = http
        /\ IF http = "ok"
           THEN /\ orthanc' = "closed"
                /\ outcome' = "success"
           ELSE /\ orthanc' = orthanc
                /\ outcome' = "crash"
    /\ UNCHANGED <<max_retries, delay, attempt, aliveLog, sleepLog, tcia,
                   seriesVars, pushVars>>
    /\ UNCHANGED callVars

\* --------------------------------------------------------- specifications
InitRest ==
    /\ outcome = "running"
    /\ attempt = 1
    /\ aliveLog = <<>>
    /\ sleepLog = <<>>
    /\ lastProbe = "none"
    /\ tcia = "none"
    /\ discovery = "none"
    /\ series_list = <<>>
    /\ selected = <<>>
    /\ idx = 0
    /\ dlLog = <<>>
    /\ dlCalls = <<>>
    /\ all_dicom_files = <<>>
    /\ stats = NoStats
    /\ upIdx = 0
    /\ uploadCalls = <<>>
    /\ lastUpload = NoUpload
    /\ statQueries = 0

\* _wait_for_orthanc applied on its own to a client that is already open.
InitWait ==
    /\ pc = "wait"
    /\ max_retries \in 0..MaxRetriesArg
    /\ delay \in {0, DefaultDelay}
    /\ orthanc = "open"
    /\ max_series = 0
    /\ pollConfig = DefaultPollConfig
    /\ callArgs = NoCall
    /\ callResult = NoCall
    /\ InitRest

NextWait == WaitPoll \/ WaitSystemInfo \/ WaitTimeout

SpecWait == InitWait /\ [][NextWait]_vars

\* _push_files_to_orthanc applied on its own to a list of paths.
PushFiles == {File("A", 0), File("A", 1), File("B", 1)}
InitPush ==
    /\ pc = "upload"
    /\ all_dicom_files \in UNION {[1..n -> PushFiles] : n \in 0..MaxCollected}
    /\ max_retries = DefaultMaxRetries
    /\ delay = DefaultDelay
    /\ orthanc = "open"
    /\ max_series = 0
    /\ outcome = "running"
    /\ attempt = 0
    /\ aliveLog = <<>>
    /\ sleepLog = <<>>
    /\ lastProbe = "none"
    /\ tcia = "none"
    /\ discovery = "none"
    /\ series_list = <<>>
    /\ selected = <<>>
    /\ idx = 0
    /\ dlLog = <<>>
    /\ dlCalls = <<>>
    /\ pollConfig = DefaultPollConfig
    /\ callArgs = NoCall
    /\ callResult = NoCall
    /\ stats = NoStats
    /\ upIdx = 1
    /\ uploadCalls = <<>>
    /\ lastUpload = NoUpload
    /\ statQueries = 0

NextPush == UploadFile \/ PushReturn

SpecPush == InitPush /\ [][NextPush]_vars

\* A client call applied on its own: nothing of a run is in progress.
InitCall ==
    /\ max_retries = DefaultMaxRetries
    /\ delay = DefaultDelay
    /\ orthanc = "open"
    /\ max_series = 0
    /\ pollConfig = DefaultPollConfig
    /\ callResult = NoCall
    /\ InitRest

\* OrthancClient.upload_dicom applied to every sequence of answers its
\* attempts can get.
InitUpload ==
    /\ pc = "call_upload"
    /\ callArgs \in {[script |-> sc] : sc \in [1..UploadAttempts -> UpAttempts]}
    /\ InitCall

CallUpload ==
    /\ pc = "call_upload"
    /\ callResult' = upload_dicom(callArgs.script)
    /\ pc' = "returned"
    /\ UNCHANGED <<runVars, pollConfig, callArgs>>

SpecUpload == InitUpload /\ [][CallUpload]_vars

\* TCIAClient.download_series applied to a series identifier and the answers
\* its attempts can get.
InitDownload ==
    /\ pc = "call_download"
    /\ callArgs \in {[uid |-> u, script |-> sc] : u \in SeriesUIDs, sc \in DownloadScripts}
    /\ InitCall

CallDownload ==
    /\ pc = "call_download"
    /\ callResult' = download_series(callArgs.uid, callArgs.script)
    /\ pc' = "returned"
    /\ UNCHANGED <<runVars, pollConfig, callArgs>>

SpecDownload == InitDownload /\ [][CallDownload]_vars

\* run, from the call of _wait_for_orthanc(orthanc) on: the OrthancClient is
\* constructed and the wait takes its default arguments.
Init ==
    /\ pc = "wait"
    /\ max_retries = DefaultMaxRetries
    /\ delay = DefaultDelay
    /\ orthanc = "open"
    /\ max_series \in -1..MaxSeriesArg
    /\ pollConfig = DefaultPollConfig
    /\ callArgs = NoCall
    /\ callResult = NoCall
    /\ InitRest

Next ==
    \/ WaitPoll
    \/ WaitSystemInfo
    \/ WaitTimeout
    \/ QuerySeries
    \/ ProcessSeries
    \/ FinishDownloads
    \/ UploadFile
    \/ PushReturn
    \/ PrintSummary

Spec == Init /\ [][Next]_vars

\* run with every statement that is reached executed in the end: each
\* request returns or fails, and each sleep ends.
SpecLive == Init /\ [][Next]_vars /\ WF_vars(Next)

\* run under a configuration: the poll retry count and delay an operator
\* can ask for.  run takes neither as a parameter and calls
\* _wait_for_orthanc(orthanc) with that function's own defaults.
PollConfigs == {DefaultPollConfig, [retries |-> 2, delay |-> 1]}
InitConfigured ==
    /\ pc = "wait"
    /\ max_retries = DefaultMaxRetries
    /\ delay = DefaultDelay
    /\ orthanc = "open"
    /\ max_series \in -1..MaxSeriesArg
    /\ pollConfig \in PollConfigs
    /\ callArgs = NoCall
    /\ callResult = NoCall
    /\ InitRest

SpecConfigured == InitConfigured /\ [][Next]_vars

\* ----------------------------------------------------------------- helpers

StatsSum == stats.uploaded + stats.already_stored + stats.failed

\* SeriesInstanceUID of a descriptor, "" when it has none.
UidOf(meta) == Get(meta, "SeriesInstanceUID", "")

\* The series loop has been entered and has run to its end.
SeriesLoopDone == idx >= 1 /\ idx > Len(selected)

\* The files of the download calls that returned, in the order of the calls.
RECURSIVE Returned(_)
Returned(log) ==
    IF log = <<>> THEN <<>>
    ELSE (IF Head(log).kind = "ok" THEN Head(log).files ELSE <<>>) \o Returned(Tail(log))

RECURSIVE ReturnedCount(_)
ReturnedCount(log) ==
    IF log = <<>> THEN 0
    ELSE (IF Head(log).kind = "ok" THEN Len(Head(log).files) ELSE 0)
            + ReturnedCount(Tail(log))

\* ------------------------------------------------------------------ claims
\* C1 (SpecPush): in _push_files_to_orthanc, after every processed file
\* uploaded + already_stored + failed equals the number of files processed so
\* far, and once the function has returned the sum equals the number of files
\* it was given.
C1_StatsSumEqualsProcessed ==
    /\ pc = "upload" => StatsSum = Len(uploadCalls) /\ Len(uploadCalls) = upIdx - 1
    /\ pc = "summary" => StatsSum = Len(all_dicom_files)

C1_Witness ==
    /\ pc = "summary"
    /\ Len(all_dicom_files) = 4
    /\ stats.uploaded = 1
    /\ stats.already_stored = 1
    /\ stats.failed = 2

\* C2 (SpecWait): _wait_for_orthanc makes no poll after the first one that
\* returned True and never more than max_retries polls; when it has ended,
\* either its last poll returned True (it made k polls, k <= max_retries), or
\* it made exactly max_retries polls that all returned False, and it ends in
\* sys.exit(1) exactly in the second case.
C2_PollCount ==
    /\ Len(aliveLog) <= max_retries
    /\ \A i \in 1..(Len(aliveLog) - 1) : ~aliveLog[i]
    /\ pc \in {"alive", "ready"} => Len(aliveLog) >= 1 /\ aliveLog[Len(aliveLog)]
    /\ pc # "wait" =>
        (outcome = "fatal_readiness"
            <=> /\ Len(aliveLog) = max_retries
                /\ \A i \in 1..Len(aliveLog) : ~aliveLog[i])

C2_Witness ==
    /\ pc = "ready"
    /\ max_retries = 5
    /\ Len(aliveLog) = 3
    /\ aliveLog[3]

\* C3 (Spec): a run whose readiness wait saw a poll return True goes on to
\* the series query; it does not end before TCIAClient.get_series is called.
C3_ReadyRunQueriesArchive ==
    (pc = "done" /\ Len(aliveLog) >= 1 /\ aliveLog[Len(aliveLog)]) => tcia # "none"

\* C4 (Spec): however a run ends (success or one of the four sys.exit(1)),
\* close has been called on every client that was created.
C4_ClientsClosedAtExit ==
    (pc = "done" /\ outcome # "crash") =>
        /\ orthanc = "closed"
        /\ tcia \in {"none", "closed"}

\* C5 as stated (Spec): with max_series >= 0, once the series loop is over
\* download_series has been called for every one of the first
\* min(max_series, L) entries of the discovery response, whatever they hold.
C5_EveryPrefixEntryDownloaded ==
    (SeriesLoopDone /\ max_series >= 0) =>
        /\ Len(dlLog) = Min(max_series, Len(series_list))
        /\ \A i \in 1..Len(dlLog) : dlLog[i].kind # "skipped"

\* C5 as amended (Spec): with max_series >= 0 the series loop processes the
\* first min(max_series, L) entries of the discovery response, in response
\* order and no others; download_series is called for exactly those of them
\* whose SeriesInstanceUID is non-empty, with that identifier.
C5_PrefixTake ==
    (idx >= 1 /\ max_series >= 0) =>
        /\ Len(dlLog) <= Min(max_series, Len(series_list))
        /\ SeriesLoopDone => Len(dlLog) = Min(max_series, Len(series_list))
        /\ \A i \in 1..Len(dlLog) :
            /\ dlLog[i].uid = UidOf(series_list[i])
            /\ dlLog[i].kind = "skipped" <=> UidOf(series_list[i]) = ""

C5_Witness ==
    /\ SeriesLoopDone
    /\ max_series = 1
    /\ Len(series_list) = 2
    /\ Len(dlLog) = 1
    /\ dlLog[1].kind = "ok"
    /\ UidOf(series_list[2]) # ""

\* C6 (Spec): when tcia.get_series raised or returned an empty list the run
\* is over with sys.exit(1), and no download_series call and no upload call
\* has been or will be made.
C6_DiscoveryFailFast ==
    discovery \in {"error", "empty"} =>
        /\ pc = "done"
        /\ outcome = (IF discovery = "error" THEN "fatal_discovery" ELSE "fatal_empty")
        /\ dlLog = <<>>
        /\ all_dicom_files = <<>>
        /\ uploadCalls = <<>>

C6_Witness ==
    /\ discovery = "empty"
    /\ pc = "done"
    /\ max_series = 2

\* C7 (Spec): a download_series call that raised does not end the run: the
\* loop goes on to the next selected series; a run that has left the loop has
\* processed every selected series, and it ended in the "no files" sys.exit(1)
\* exactly when nothing was collected.
C7_DownloadFailureRecovered ==
    /\ (idx >= 1 /\ pc = "process") =>
        /\ outcome = "running"
        /\ Len(dlLog) = Min(idx - 1, Len(selected))
    /\ (idx >= 1 /\ pc # "process") =>
        /\ Len(dlLog) = Len(selected)
        /\ outcome = "fatal_nofiles" <=> all_dicom_files = <<>>

C7_Witness ==
    /\ pc = "upload"
    /\ Len(dlLog) = 2
    /\ dlLog[1].kind = "failed"
    /\ dlLog[2].kind = "ok"

\* C8 (Spec): the collected list is the concatenation, in series order, of
\* the lists the returning download_series calls gave; skipped and failed
\* series add nothing, so its length is the sum of those lists' lengths; and
\* it is this list that the upload loop walks.
C8_CollectedIsConcatenation ==
    /\ all_dicom_files = Returned(dlLog)
    /\ Len(all_dicom_files) = ReturnedCount(dlLog)
    /\ \A i \in 1..Len(dlLog) : dlLog[i].kind # "ok" => dlLog[i].files = <<>>
    /\ \A i \in 1..Len(uploadCalls) : uploadCalls[i] = Returned(dlLog)[i]

C8_Witness ==
    /\ pc = "upload"
    /\ Len(dlLog) = 2
    /\ dlLog[1].kind = "ok"
    /\ dlLog[2].kind = "ok"
    /\ Len(dlLog[1].files) = 2
    /\ Len(dlLog[2].files) = 1
    /\ dlLog[1].uid # dlLog[2].uid
    /\ upIdx = 4

\* C9 (SpecPush): upload_dicom_file is called once per collected file, in
\* collection order; a call that raises adds one to failed and nothing else,
\* and the loop goes on with the next file: the stage is never left before
\* the last file.
C9_OneCallPerFile ==
    /\ [](/\ outcome = "running"
          /\ pc \in {"upload", "summary"}
          /\ uploadCalls = SubSeq(all_dicom_files, 1, Len(uploadCalls))
          /\ pc = "summary" => uploadCalls = all_dicom_files)
    /\ [][(upIdx' # upIdx /\ lastUpload'.raised) =>
            /\ stats' = [stats EXCEPT !.failed = @ + 1]
            /\ upIdx' = upIdx + 1
            /\ pc' = "upload"]_vars

C9_Witness ==
    /\ pc = "summary"
    /\ Len(all_dicom_files) = 4
    /\ stats.failed = 1
    /\ stats.uploaded = 3
    /\ ~lastUpload.raised

\* C10 (SpecPush): a call that returned is counted by its Status alone:
\* "AlreadyStored" adds one to already_stored, every other value, an empty
\* and an absent Status included, adds one to uploaded; nothing else changes.
C10_ClassifiedByStatus ==
    [][(upIdx' # upIdx /\ ~lastUpload'.raised) =>
        IF "Status" \in DOMAIN lastUpload'.result
              /\ lastUpload'.result.Status = "AlreadyStored"
        THEN stats' = [stats EXCEPT !.already_stored = @ + 1]
        ELSE stats' = [stats EXCEPT !.uploaded = @ + 1]]_vars

\* AlreadyStored for the first file and Success for the second:
\* {uploaded: 1, already_stored: 1, failed: 0}.
C10_Witness ==
    /\ pc = "summary"
    /\ Len(all_dicom_files) = 2
    /\ lastUpload = [raised |-> FALSE, result |-> [ID |-> "i", Status |-> "Success"]]
    /\ stats = [uploaded |-> 1, already_stored |-> 1, failed |-> 0]

\* What attempt n of the upload_dicom call in callArgs raised ("" when the
\* POST was answered with a success status).
UpErr(n) == IF callArgs.script[n].http = "ok" THEN "" ELSE callArgs.script[n].http

\* C11 (SpecUpload): upload_dicom makes between 1 and 3 attempts; every
\* attempt but the last raised ConnectError or TimeoutException, and such an
\* error below the third attempt is followed by another attempt; an
\* HTTPStatusError ends the call with that attempt and is raised; a failing
\* third attempt is raised to the caller as it is; an attempt that was
\* answered ends the call with its answer.
C11_UploadRetry ==
    pc = "returned" =>
        LET last == callResult.attempts IN
        /\ last \in 1..3
        /\ \A n \in 1..(last - 1) : UpErr(n) \in TransportErrors
        /\ UpErr(last) \in TransportErrors => last = 3
        /\ callResult.raised = UpErr(last)
        /\ UpErr(last) = "" => callResult.result = callArgs.script[last].body
        /\ \A n \in 1..3 :
            (UpErr(n) = "HTTPStatusError" /\ \A m \in 1..(n - 1) : UpErr(m) \in TransportErrors)
                => last = n /\ callResult.raised = "HTTPStatusError"
        /\ (\A n \in 1..3 : UpErr(n) # "") => callResult.raised # ""

\* ConnectError, ConnectError, TimeoutException: the third failure is raised.
C11_Witness ==
    /\ pc = "returned"
    /\ UpErr(1) = "ConnectError"
    /\ UpErr(2) = "ConnectError"
    /\ callResult.attempts = 3
    /\ callResult.raised = "TimeoutException"

\* What attempt n of the download_series call in callArgs raised.
DlErr(n) == DownloadRaises(callArgs.script[n])

\* C12 (SpecDownload): download_series makes at most 3 attempts and a further
\* attempt follows only a ConnectError or TimeoutException; an HTTPStatusError
\* on the first attempt is raised after that one attempt, and on a later
\* attempt ends the call there; an OSError from mkdir or write_bytes, or an
\* exception of zf.read that the except clause does not catch, ends the call
\* on the attempt it occurs in.
C12_DownloadRetry ==
    pc = "returned" =>
        LET last == callResult.attempts IN
        /\ last \in 1..3
        /\ \A n \in 1..(last - 1) : DlErr(n) \in TransportErrors
        /\ DlErr(1) = "HTTPStatusError" =>
                callResult.attempts = 1 /\ callResult.raised = "HTTPStatusError"
        /\ DlErr(last) \in {"HTTPStatusError", "OSError", "zlib.error"} =>
                callResult.raised = DlErr(last) /\ callResult.files = <<>>
        /\ DlErr(1) \in {"OSError", "zlib.error"} => callResult.attempts = 1

\* The archive was fetched on the second attempt and writing the files
\* failed: no third attempt.
C12_Witness ==
    /\ pc = "returned"
    /\ DlErr(1) = "TimeoutException"
    /\ DlErr(2) = "OSError"
    /\ callResult.attempts = 2
    /\ callResult.raised = "OSError"

\* C13 as stated (SpecDownload): the wait before retry n of download_series
\* is min(30, 4 * 2^(n-1)) seconds: 4, then 8.
C13_WaitsDoubleFromFour ==
    pc = "returned" =>
        \A n \in 1..Len(callResult.waits) :
            callResult.waits[n] = Min(30, 4 * Pow2(n - 1))

\* C13 as amended (SpecDownload): download_series sleeps once before each
\* retry, and the wait before retry n (n = 1, 2) is
\* max(4, min(30, 2 * 2^(n-1))) = 4 seconds both times.
C13_WaitsFourFour ==
    pc = "returned" =>
        /\ Len(callResult.waits) = callResult.attempts - 1
        /\ \A n \in 1..Len(callResult.waits) : callResult.waits[n] = 4

C13_Witness ==
    /\ pc = "returned"
    /\ callResult.attempts = 3
    /\ callResult.waits = <<4, 4>>
    /\ callResult.raised = ""

\* The four conditions under which run calls sys.exit(1).
ReadinessTimedOut ==
    Len(aliveLog) = max_retries /\ \A i \in 1..Len(aliveLog) : ~aliveLog[i]
DiscoveryFailed == discovery = "error"
EmptyCollection == discovery = "empty"
NoFilesDownloaded == SeriesLoopDone /\ all_dicom_files = <<>>
FatalCondition ==
    ReadinessTimedOut \/ DiscoveryFailed \/ EmptyCollection \/ NoFilesDownloaded

\* C14 (Spec): a run that is over ended in success exactly when none of the
\* four fatal conditions occurred, and each fatal condition ended it with
\* its own sys.exit(1); nothing else, failed uploads included, takes a run
\* away from success.
C14_SuccessIffNoFatalCondition ==
    pc = "done" =>
        /\ outcome = "success" <=> ~FatalCondition
        /\ ReadinessTimedOut => outcome = "fatal_readiness"
        /\ DiscoveryFailed => outcome = "fatal_discovery"
        /\ EmptyCollection => outcome = "fatal_empty"
        /\ NoFilesDownloaded => outcome = "fatal_nofiles"

\* C15 (SpecWait): a poll never ends the process: is_alive returns True
\* exactly when GET /system was answered with a success status, and returns
\* False on ConnectError, TimeoutException and HTTPStatusError.
C15_IsAliveSwallows ==
    [][Len(aliveLog') = Len(aliveLog) + 1 =>
        /\ aliveLog'[Len(aliveLog')] <=> lastProbe' = "ok"
        /\ lastProbe' \in HTTPErrors => ~aliveLog'[Len(aliveLog')]
        /\ outcome' = "running"
        /\ pc' \in {"wait", "alive"}]_vars

\* GET /system answered with an error status: the poll returned False and
\* the wait goes on.
C15_Witness ==
    /\ pc = "wait"
    /\ outcome = "running"
    /\ lastProbe = "HTTPStatusError"
    /\ Len(aliveLog) = 1
    /\ ~aliveLog[1]
    /\ sleepLog = <<delay>>

\* The payload fails to extract: it is no archive, or one of its members
\* fails to read (with zipfile.BadZipFile or with another exception).
Malformed(payload) ==
    \/ ~payload.zip
    \/ \E j \in 1..Len(payload.members) :
            payload.members[j] \in {"corrupt", "damaged"}

\* C16 (SpecDownload): when the payload was fetched, the series directory
\* is writable and the extraction of the payload fails as a malformed
\* archive, download_series returns exactly one path, <uid>/<uid>.dcm,
\* wherever in the extraction the failure shows.
C16_MalformedGivesOneFile ==
    (/\ pc = "returned"
     /\ callArgs.script[callResult.attempts].http = "ok"
     /\ callArgs.script[callResult.attempts].disk = "ok"
     /\ Malformed(callArgs.script[callResult.attempts].payload))
        => /\ callResult.raised = ""
           /\ callResult.files = <<File(callArgs.uid, 0)>>

\* The stage a position of run belongs to.
Stage(p) ==
    IF p \in {"wait", "alive", "ready"} THEN 1
    ELSE IF p = "process" THEN 2
    ELSE IF p \in {"upload", "summary"} THEN 3
    ELSE 4

\* C17 (Spec): the stages follow one another and none is entered again:
\* get_series is called only after a readiness poll returned True, a series
\* is processed only after get_series returned a non-empty list, an upload
\* is made only when every selected series has been processed, and once an
\* upload has been made no poll, series query or download is made.
C17_StagesInOrder ==
    [][/\ Stage(pc') >= Stage(pc)
       /\ discovery' # discovery =>
            pc = "ready" /\ Len(aliveLog) >= 1 /\ aliveLog[Len(aliveLog)]
       /\ (dlLog' # dlLog \/ dlCalls' # dlCalls) =>
            discovery = "list" /\ series_list # <<>>
       /\ uploadCalls' # uploadCalls =>
            idx > Len(selected) /\ Len(dlLog) = Len(selected)
       /\ uploadCalls # <<>> =>
            /\ aliveLog' = aliveLog
            /\ discovery' = discovery
            /\ dlLog' = dlLog
            /\ dlCalls' = dlCalls]_vars

C17_Witness ==
    /\ pc = "summary"
    /\ Len(selected) = 2
    /\ Len(dlLog) = 2
    /\ Len(dlCalls) = 2
    /\ Len(uploadCalls) = 2

\* C18 (SpecConfigured): a run makes at most the configured number of
\* readiness polls and sleeps the configured delay after a failed one.
C18_PollsFollowConfiguration ==
    /\ Len(aliveLog) <= pollConfig.retries
    /\ \A i \in 1..Len(sleepLog) : sleepLog[i] = pollConfig.delay

HasUid(meta) == UidOf(meta) # ""
\* The identifiers of the entries among the first n selected that have one.
UidsOfFirst(n) ==
    LET withUid == SelectSeq(SubSeq(selected, 1, n), HasUid)
    IN  [i \in 1..Len(withUid) |-> UidOf(withUid[i])]

\* C19 (Spec): download_series has been called once, in order, for each
\* processed entry of selected that has a non-empty SeriesInstanceUID and
\* for no other; an entry without one is skipped, adds no file, and the loop
\* goes on with the next entry.
C19_SkipWithoutUid ==
    [][/\ (dlCalls = UidsOfFirst(Len(dlLog)))'
       /\ (\A i \in 1..Len(dlLog) :
                /\ dlLog[i].kind = "skipped" <=> ~HasUid(selected[i])
                /\ dlLog[i].kind = "skipped" => dlLog[i].files = <<>>)'
       /\ (SeriesLoopDone => Len(dlLog) = Len(selected))'
       /\ (Len(dlLog') = Len(dlLog) + 1 /\ ~HasUid(selected[idx])) =>
            /\ dlCalls' = dlCalls
            /\ all_dicom_files' = all_dicom_files
            /\ idx' = idx + 1
            /\ pc' = "process"
            /\ outcome' = "running"]_vars

\* The first entry has no SeriesInstanceUID key, the second has an
\* identifier: one download_series call, for the second.
C19_Witness ==
    /\ SeriesLoopDone
    /\ Len(selected) = 2
    /\ selected[1] = EmptyDict
    /\ dlCalls = <<"B">>
    /\ dlLog[1].kind = "skipped"
    /\ dlLog[2].kind = "ok"

StatsFields == {"uploaded", "already_stored", "failed"}

\* C20 (Spec): the counters are 0 until the first upload_dicom_file call;
\* a step changes them only by adding one to exactly one of them, and it
\* does so exactly when it processes a file; the statistics query and the
\* summary leave them as they are.
C20_StatsMonotone ==
    [][/\ uploadCalls = <<>> =>
            stats = [uploaded |-> 0, already_stored |-> 0, failed |-> 0]
       /\ \A f \in StatsFields : stats'[f] >= stats[f]
       /\ stats' # stats <=> Len(uploadCalls') = Len(uploadCalls) + 1
       /\ stats' # stats =>
            /\ pc = "upload"
            /\ \E f \in StatsFields : stats' = [stats EXCEPT ![f] = @ + 1]
       /\ pc = "summary" => stats' = stats]_vars

C20_Witness ==
    /\ pc = "done"
    /\ outcome = "success"
    /\ statQueries = 1
    /\ stats = [uploaded |-> 1, already_stored |-> 1, failed |-> 1]

\* The outcomes of the four sys.exit(1) calls of a run.
FatalOutcomes == {"fatal_readiness", "fatal_discovery", "fatal_empty", "fatal_nofiles"}

\* C21 (Spec): GET /statistics is requested at most once in a run; a run
\* that ended in success requested it once, when upload_dicom_file had been
\* called for every collected file, and a run that ended in one of the four
\* sys.exit(1) never requested it.
C21_StatisticsQueriedOnce ==
    /\ statQueries \in {0, 1}
    /\ outcome = "success" => statQueries = 1
    /\ outcome \in FatalOutcomes => statQueries = 0
    /\ statQueries = 1 =>
        /\ pc = "done"
        /\ uploadCalls = all_dicom_files
        /\ upIdx = Len(all_dicom_files) + 1

\* The last of two uploads raised; the statistics were queried after it.
C21_Witness ==
    /\ pc = "done"
    /\ outcome = "success"
    /\ statQueries = 1
    /\ Len(uploadCalls) = 2
    /\ lastUpload.raised
    /\ stats.failed = 1

\* C24 (Spec): a run that ended in one of the four sys.exit(1) has made no
\* upload_dicom_file call and never entered _push_files_to_orthanc: the
\* counters were never created.
C24_NoUploadInFatalRun ==
    outcome \in FatalOutcomes =>
        /\ pc = "done"
        /\ uploadCalls = <<>>
        /\ lastUpload = NoUpload
        /\ upIdx = 0
        /\ stats = NoStats

\* Both selected series were processed and neither gave a file.
C24_Witness ==
    /\ outcome = "fatal_nofiles"
    /\ Len(dlLog) = 2
    /\ dlLog[1].kind = "ok"
    /\ dlLog[2].kind = "failed"
    /\ uploadCalls = <<>>

\* C26 (SpecWait): _wait_for_orthanc sleeps delay seconds after every poll
\* that returned False, the last one included, and never any other length:
\* a wait whose k-th poll returned True has slept k-1 times, and a wait that
\* ended in sys.exit(1) has slept max_retries times.
C26_FixedDelayAfterEveryFailedPoll ==
    /\ \A i \in 1..Len(sleepLog) : sleepLog[i] = delay
    /\ pc = "wait" => Len(sleepLog) = Len(aliveLog)
    /\ (Len(aliveLog) >= 1 /\ aliveLog[Len(aliveLog)]) =>
            Len(sleepLog) = Len(aliveLog) - 1
    /\ outcome = "fatal_readiness" =>
            Len(sleepLog) = max_retries /\ Len(aliveLog) = max_retries

\* Three polls allowed, all three returned False: three sleeps of 5 s.
C26_Witness ==
    /\ outcome = "fatal_readiness"
    /\ max_retries = 3
    /\ aliveLog = <<FALSE, FALSE, FALSE>>
    /\ sleepLog = <<5, 5, 5>>

\* What a step of the series loop records of a download_series call that
\* ended as r, and what a step of the upload loop records of an
\* upload_dicom_file call that ended as r.
DownloadRecord(uid, r) ==
    Entry(IF r.raised = "" THEN "ok" ELSE "failed", uid, r.files)
UploadRecord(r) == [raised |-> r.raised # "", result |-> r.result]

\* C25 (Spec): with max_series >= 0 a run makes at most max_series
\* download_series calls, and each of them makes 1 to 3 requests; it makes
\* one upload_dicom_file call per collected file, never more, and each of
\* them makes at most 3 requests; an upload that failed on all 3 attempts
\* adds one to failed and changes no other counter.
C25_RemoteWorkBounded ==
    [][/\ (max_series >= 0 => Len(dlCalls') <= max_series)
       /\ Len(uploadCalls') <= Len(all_dicom_files')
       /\ pc' = "summary" => Len(uploadCalls') = Len(all_dicom_files')
       /\ dlCalls' # dlCalls =>
            /\ Len(dlCalls') = Len(dlCalls) + 1
            /\ \A r \in DownloadOutcomes[dlCalls'[Len(dlCalls')]] :
                    dlLog'[Len(dlLog')] = DownloadRecord(dlCalls'[Len(dlCalls')], r)
                        => r.attempts \in 1..3
       /\ uploadCalls' # uploadCalls =>
            /\ Len(uploadCalls') = Len(uploadCalls) + 1
            /\ \A r \in UploadOutcomes :
                    lastUpload' = UploadRecord(r) =>
                        /\ r.attempts \in 0..3
                        /\ (r.attempts = 3 /\ r.raised # "") =>
                                stats' = [stats EXCEPT !.failed = @ + 1]]_vars

\* Two series downloaded with max_series = 2, three files collected and
\* uploaded, the last upload failed.
C25_Witness ==
    /\ pc = "summary"
    /\ max_series = 2
    /\ Len(dlCalls) = 2
    /\ Len(all_dicom_files) = 3
    /\ Len(uploadCalls) = 3
    /\ lastUpload.raised
    /\ stats.failed = 1

\* C22 (SpecLive): every run ends: when each request returns or fails, the
\* process exits, with its polls bounded by max_retries, its download calls
\* by the selected series and its upload calls by the collected files.
C22_RunTerminates == <>(pc = "done" /\ outcome # "running")

\* A run that ended after the archive failed one series and Orthanc
\* failed every upload.
C22_Witness ==
    /\ pc = "done"
    /\ outcome = "success"
    /\ Len(dlLog) = 2
    /\ dlLog[1].kind = "failed"
    /\ Len(uploadCalls) = 2
    /\ stats.failed = 2

\* What the two services answered, as the run holds it: the answer to the
\* latest GET /system or /statistics, the result of get_series, the result
\* of every download_series call and the result of the latest
\* upload_dicom_file call.  SameAnswers(a): the step gets the answers a.
SameAnswers(a) ==
    /\ lastProbe' = a[1]
    /\ discovery' = a[2]
    /\ series_list' = a[3]
    /\ dlLog' = a[4]
    /\ lastUpload' = a[5]
Answers == <<lastProbe, discovery, series_list, dlLog, lastUpload>>

\* C23 (Spec): what a run does next is fixed by what it did so far and what
\* the services answer: from no state of a run do two steps that get the
\* same answer lead to states that differ in a call made, a counter, the
\* outcome or anything else.  Two runs with the same max_series and the same
\* answers therefore go through the same states.
C23_SameAnswersSameRun ==
    [][\A a \in {Answers'} : \A v \in {vars'} :
            ~ENABLED (SameAnswers(a) /\ Next /\ vars' # v)]_vars

\* Orthanc unavailable for the summary after a run whose first download
\* and first upload failed.
C23_Witness ==
    /\ pc = "done"
    /\ outcome = "crash"
    /\ lastProbe = "ConnectError"
    /\ Len(dlLog) = 2
    /\ dlLog[1].kind = "failed"
    /\ Len(uploadCalls) = 2
    /\ stats = [uploaded |-> 1, already_stored |-> 0, failed |-> 1]

====
